---------------------------- MODULE Spec2Model ----------------------------
(***************************************************************************)
(* Model of the chat-assistant edge function (FAQ matcher, router,         *)
(* suggestion generator and response assembler) of scoot-assist-ai.        *)
(*                                                                         *)
(* Strings are TLA+ strings handled character by character.  Scores are    *)
(* exact rationals [num, den] in lowest terms; NaN is a value of its own.  *)
(* The code computes in IEEE doubles: the model is exact where the code    *)
(* rounds, so two scores that differ only by rounding are equal here.      *)
(***************************************************************************)
EXTENDS Integers, Sequences, FiniteSets, TLC

(***************************************************************************)
(* JavaScript values that may be a string, a number, null or undefined.    *)
(***************************************************************************)
null == [type |-> "null"]
undefined == [type |-> "undefined"]
Str(s) == [type |-> "string", value |-> s]
Num(n) == [type |-> "number", value |-> n]
Arr(a) == [type |-> "array", value |-> a]
IsString(v) == v.type = "string"
IsNumber(v) == v.type = "number"

(***************************************************************************)
(* Numbers: exact rationals, and NaN.                                      *)
(***************************************************************************)
RECURSIVE GCD(_, _)
GCD(a, b) == IF b = 0 THEN a ELSE GCD(b, a % b)

NaN == [num |-> 0, den |-> 0]
Rat(n, d) == LET g == GCD(n, d) IN [num |-> n \div g, den |-> d \div g]
Zero == Rat(0, 1)
One == Rat(1, 1)
IsNaN(x) == x.den = 0 /\ x.num = 0

\* a > b as JavaScript evaluates it: false as soon as one side is NaN
Gt(a, b) == /\ ~IsNaN(a)
            /\ ~IsNaN(b)
            /\ a.num * b.den > b.num * a.den

Le(a, b) == /\ ~IsNaN(a)
            /\ ~IsNaN(b)
            /\ a.num * b.den <= b.num * a.den

Times(a, b) == IF IsNaN(a) \/ IsNaN(b) THEN NaN ELSE Rat(a.num * b.num, a.den * b.den)

\* Math.max of two values: NaN if either is NaN
MathMax2(a, b) == IF IsNaN(a) \/ IsNaN(b) THEN NaN ELSE IF Gt(b, a) THEN b ELSE a

MathMax(a, b, c) == MathMax2(MathMax2(a, b), c)

\* Math.min of two values: NaN if either is NaN
MathMin(a, b) == IF IsNaN(a) \/ IsNaN(b) THEN NaN ELSE IF Gt(a, b) THEN b ELSE a

Infinity == [num |-> 1, den |-> 0]

\* n / d on doubles for whole n >= 0 and d >= 0: 0/0 is NaN, n/0 is Infinity
Div(n, d) == IF d = 0 THEN (IF n = 0 THEN NaN ELSE Infinity) ELSE Rat(n, d)

(***************************************************************************)
(* String primitives.                                                      *)
(***************************************************************************)
UpperChars == "ABCDEFGHIJKLMNOPQRSTUVWXYZ"
LowerChars == "abcdefghijklmnopqrstuvwxyz"

\* the lower-case letter of every upper-case letter
LowerOf ==
  [c \in {SubSeq(UpperChars, k, k) : k \in 1..26} |->
     LET k == CHOOSE j \in 1..26 : SubSeq(UpperChars, j, j) = c
     IN SubSeq(LowerChars, k, k)]

CharToLower(c) == IF c \in DOMAIN LowerOf THEN LowerOf[c] ELSE c

RECURSIVE toLowerCase(_)
toLowerCase(s) == IF s = "" THEN "" ELSE CharToLower(Head(s)) \o toLowerCase(Tail(s))

\* String.prototype.includes: the empty string is included in every string
includes(s, t) ==
  \E k \in 1..(Len(s) - Len(t) + 1) : SubSeq(s, k, k + Len(t) - 1) = t

\* Array.prototype.includes
arrayIncludes(a, x) == \E k \in 1..Len(a) : a[k] = x

IsWhitespace(c) == c \in {" ", "\t", "\n", "\r"}

RECURSIVE SkipWhitespace(_)
SkipWhitespace(s) ==
  IF s # "" /\ IsWhitespace(Head(s)) THEN SkipWhitespace(Tail(s)) ELSE s

\* s.split(/\s+/): a run of whitespace separates; a leading or trailing run
\* leaves an empty first or last piece, and "" splits into [""]
RECURSIVE SplitWsFrom(_, _)
SplitWsFrom(s, cur) ==
  IF s = "" THEN <<cur>>
  ELSE IF IsWhitespace(Head(s)) THEN <<cur>> \o SplitWsFrom(SkipWhitespace(s), "")
  ELSE SplitWsFrom(Tail(s), cur \o Head(s))

splitWhitespace(s) == SplitWsFrom(s, "")

\* s.split(' '): every single space separates
RECURSIVE SplitSpaceFrom(_, _)
SplitSpaceFrom(s, cur) ==
  IF s = "" THEN <<cur>>
  ELSE IF Head(s) = " " THEN <<cur>> \o SplitSpaceFrom(Tail(s), "")
  ELSE SplitSpaceFrom(Tail(s), cur \o Head(s))

splitSpace(s) == SplitSpaceFrom(s, "")

\* number of elements of a that satisfy Test
Count(a, Test(_)) == Len(SelectSeq(a, Test))

(***************************************************************************)
(* Matcher.                                                                *)
(***************************************************************************)
stopWords ==
  <<"what", "is", "the", "are", "your", "my", "do", "does", "can", "have",
    "how", "where", "when", "why", "i", "you", "a", "an", "and", "or", "but",
    "of", "to", "for", "with", "on", "at", "by", "from", "up", "about",
    "into", "through", "during", "before", "after", "above", "below",
    "between", "among", "within", "without", "along", "following", "across",
    "behind", "beyond", "plus", "except", "but", "than", "that", "this",
    "these", "those">>

\* the elements of stopWords
StopWordSet == {stopWords[k] : k \in 1..Len(stopWords)}

ContentWords(str) ==
  LET Keep(word) == Len(word) > 2 /\ word \notin StopWordSet
  IN SelectSeq(splitWhitespace(toLowerCase(str)), Keep)

calculateSimilarity(str1, str2) ==
  LET words1 == ContentWords(str1)
      words2 == ContentWords(str2)
      Exact(word) == arrayIncludes(words2, word)
      Partial(word1) ==
        \E k \in 1..Len(words2) :
          /\ word1 # words2[k]
          /\ (includes(word1, words2[k]) \/ includes(words2[k], word1))
      exactMatches == Count(words1, Exact)
      \* partialMatches, counted in halves
      partialHalves == Count(words1, Partial)
      longest == IF Len(words1) > Len(words2) THEN Len(words1) ELSE Len(words2)
  IN IF Len(words1) = 0 \/ Len(words2) = 0 THEN Zero
     ELSE Rat(2 * exactMatches + partialHalves, 2 * longest)

synonyms ==
  << <<"speed", <<"velocity", "pace", "fast", "quick", "mph", "rate">> >>,
     <<"range", <<"distance", "miles", "travel", "reach", "mileage">> >>,
     <<"battery", <<"charge", "power", "energy", "charging">> >>,
     <<"waterproof", <<"water", "rain", "wet", "weather", "resistant">> >>,
     <<"warranty", <<"guarantee", "coverage", "protection", "policy">> >>,
     <<"legal", <<"law", "regulations", "rules", "permitted", "street", "road">> >>,
     <<"service", <<"repair", "maintenance", "fix", "support">> >>,
     <<"track", <<"follow", "monitor", "status", "order">> >>,
     <<"payment", <<"pay", "cost", "price", "billing", "methods">> >>,
     <<"return", <<"refund", "exchange", "send back", "policy">> >>,
     <<"models", <<"types", "versions", "variants", "options", "scooters", "products">> >>,
     <<"differences", <<"compare", "comparison", "different", "features", "specs">> >>,
     <<"features", <<"specs", "specifications", "capabilities", "options">> >>,
     <<"delivery", <<"shipping", "shipping", "transport", "sent">> >>,
     <<"accessories", <<"parts", "add-ons", "extras", "components">> >> >>

\* for each entry of synonyms, the set of the words of its value list
SynonymValues ==
  [k \in 1..Len(synonyms) |-> {synonyms[k][2][j] : j \in 1..Len(synonyms[k][2])}]

\* areSimilarWords without the test of word2 as a key
areSimilarWordsKeyFirst(word1, word2) ==
  \E k \in 1..Len(synonyms) :
    \/ (word1 = synonyms[k][1] /\ word2 \in SynonymValues[k])
    \/ (word1 \in SynonymValues[k] /\ word2 \in SynonymValues[k])

areSimilarWords(word1, word2) ==
  \E k \in 1..Len(synonyms) :
    \/ (word1 = synonyms[k][1] /\ word2 \in SynonymValues[k])
    \/ (word2 = synonyms[k][1] /\ word1 \in SynonymValues[k])
    \/ (word1 \in SynonymValues[k] /\ word2 \in SynonymValues[k])

\* keywords is the array the caller passes (item.keywords || [])
calculateKeywordMatch(query, keywords) ==
  LET queryWords == splitWhitespace(toLowerCase(query))
      Matches(keyword) ==
        LET lowered == toLowerCase(keyword)
        IN \E k \in 1..Len(queryWords) :
             \/ includes(queryWords[k], lowered)
             \/ includes(lowered, queryWords[k])
             \/ areSimilarWords(queryWords[k], lowered)
  IN IF Len(keywords) = 0 THEN Zero
     ELSE Rat(Count(keywords, Matches), Len(keywords))

\* what one query word adds to semanticMatches, in tenths: the inner loop
\* stops at the first question word that meets any of the three tests
RECURSIVE WordContribution(_, _)
WordContribution(queryWord, questionWords) ==
  IF questionWords = <<>> THEN 0
  ELSE LET questionWord == Head(questionWords)
       IN IF queryWord = questionWord THEN 10
          ELSE IF areSimilarWords(queryWord, questionWord) THEN 8
          ELSE IF /\ Len(queryWord) > 3
                  /\ Len(questionWord) > 3
                  /\ (includes(queryWord, questionWord) \/ includes(questionWord, queryWord))
               THEN 6
          ELSE WordContribution(queryWord, Tail(questionWords))

RECURSIVE SumContributions(_, _)
SumContributions(queryWords, questionWords) ==
  IF queryWords = <<>> THEN 0
  ELSE WordContribution(Head(queryWords), questionWords)
         + SumContributions(Tail(queryWords), questionWords)

\* calculateSemanticSimilarity without the cap at 1.0
calculateSemanticSimilarityUncapped(query, question) ==
  LET LongWord(word) == Len(word) > 2
      queryWords == SelectSeq(splitWhitespace(toLowerCase(query)), LongWord)
      questionWords == SelectSeq(splitWhitespace(toLowerCase(question)), LongWord)
      boost == (IF includes(query, "model") /\ includes(question, "model") THEN 5 ELSE 0)
             + (IF includes(query, "difference") /\ includes(question, "difference") THEN 5 ELSE 0)
             + (IF /\ includes(query, "types")
                   /\ (includes(question, "model") \/ includes(question, "difference"))
                THEN 3 ELSE 0)
  IN Div(SumContributions(queryWords, questionWords) + boost, 10 * Len(queryWords))

calculateSemanticSimilarity(query, question) ==
  LET LongWord(word) == Len(word) > 2
      queryWords == SelectSeq(splitWhitespace(toLowerCase(query)), LongWord)
      questionWords == SelectSeq(splitWhitespace(toLowerCase(question)), LongWord)
      totalQueryWords == Len(queryWords)
      boost == (IF includes(query, "model") /\ includes(question, "model") THEN 5 ELSE 0)
             + (IF includes(query, "difference") /\ includes(question, "difference") THEN 5 ELSE 0)
             + (IF /\ includes(query, "types")
                   /\ (includes(question, "model") \/ includes(question, "difference"))
                THEN 3 ELSE 0)
      \* semanticMatches in tenths
      semanticMatches == SumContributions(queryWords, questionWords) + boost
  IN MathMin(Div(semanticMatches, 10 * totalQueryWords), One)

\* questionScore, keywordScore and semanticScore of one round of the loop
\* of findBestMatch
signalScores(query, item) ==
  LET keywords == IF item.keywords = null THEN <<>> ELSE item.keywords.value
      loweredQuery == toLowerCase(query)
      loweredQuestion == toLowerCase(item.question)
  IN [questionScore |-> calculateSimilarity(loweredQuery, loweredQuestion),
      keywordScore |-> calculateKeywordMatch(loweredQuery, keywords),
      semanticScore |-> calculateSemanticSimilarity(loweredQuery, loweredQuestion)]

finalScore(query, item) ==
  LET keywords == IF item.keywords = null THEN <<>> ELSE item.keywords.value
      loweredQuery == toLowerCase(query)
      loweredQuestion == toLowerCase(item.question)
      questionScore == calculateSimilarity(loweredQuery, loweredQuestion)
      keywordScore == calculateKeywordMatch(loweredQuery, keywords)
      semanticScore == calculateSemanticSimilarity(loweredQuery, loweredQuestion)
  IN MathMax(Times(questionScore, Rat(6, 10)),
             Times(keywordScore, Rat(8, 10)),
             Times(semanticScore, One))

\* item.view_count || 0, for an item that may lack the field
ViewCountOrZero(item) ==
  IF "view_count" \in DOMAIN item /\ IsNumber(item.view_count) /\ item.view_count.value # 0
  THEN item.view_count
  ELSE Num(0)

WithViewCount(item) ==
  [f \in DOMAIN item \cup {"view_count"} |->
     IF f = "view_count" THEN ViewCountOrZero(item) ELSE item[f]]

\* the loop of findBestMatch from item k on, with the running best
\* the loop of findBestMatch with >= in place of >: the last of several
\* entries sharing the highest score is kept
RECURSIVE BestMatchFromLastWins(_, _, _, _, _)
BestMatchFromLastWins(query, qaItems, k, bestMatch, highestScore) ==
  IF k > Len(qaItems) THEN bestMatch
  ELSE LET score == finalScore(query, qaItems[k])
       IN IF Gt(score, highestScore) \/ (score = highestScore /\ Gt(score, Zero))
          THEN BestMatchFromLastWins(query, qaItems, k + 1,
                                     [item |-> WithViewCount(qaItems[k]), confidence |-> score],
                                     score)
          ELSE BestMatchFromLastWins(query, qaItems, k + 1, bestMatch, highestScore)

RECURSIVE BestMatchFrom(_, _, _, _, _)
BestMatchFrom(query, qaItems, k, bestMatch, highestScore) ==
  IF k > Len(qaItems) THEN bestMatch
  ELSE LET score == finalScore(query, qaItems[k])
       IN IF Gt(score, highestScore)
          THEN BestMatchFrom(query, qaItems, k + 1,
                             [item |-> WithViewCount(qaItems[k]), confidence |-> score],
                             score)
          ELSE BestMatchFrom(query, qaItems, k + 1, bestMatch, highestScore)

\* query is a string here; the caller handles a query without toLowerCase
findBestMatch(query, qaItems) == BestMatchFrom(query, qaItems, 1, null, Zero)

\* findRelatedItems without the test that leaves the entry itself out
findRelatedItemsWithSelf(item, allItems) ==
  LET Related(otherItem) == otherItem.category_id = item.category_id
      filtered == SelectSeq(allItems, Related)
      firstThree == SubSeq(filtered, 1, IF Len(filtered) < 3 THEN Len(filtered) ELSE 3)
  IN [k \in 1..Len(firstThree) |-> firstThree[k].id]

findRelatedItems(item, allItems) ==
  LET Related(otherItem) ==
        otherItem.id # item.id /\ otherItem.category_id = item.category_id
      filtered == SelectSeq(allItems, Related)
      firstThree == SubSeq(filtered, 1, IF Len(filtered) < 3 THEN Len(filtered) ELSE 3)
  IN [k \in 1..Len(firstThree) |-> firstThree[k].id]

(***************************************************************************)
(* Intent detection.  A pattern is a regular expression source; the model  *)
(* covers the patterns made of literal characters and "|" (alternation of  *)
(* literals), and patterns with an unbalanced parenthesis, which           *)
(* new RegExp rejects with a SyntaxError.                                  *)
(***************************************************************************)
RECURSIVE ParenDepthOk(_, _)
ParenDepthOk(p, depth) ==
  IF p = "" THEN depth = 0
  ELSE IF Head(p) = "(" THEN ParenDepthOk(Tail(p), depth + 1)
  ELSE IF Head(p) = ")" THEN depth > 0 /\ ParenDepthOk(Tail(p), depth - 1)
  ELSE ParenDepthOk(Tail(p), depth)

\* new RegExp(pattern, 'i') throws
RegExpThrows(pattern) == ~ParenDepthOk(pattern, 0)

RECURSIVE SplitBarFrom(_, _)
SplitBarFrom(p, cur) ==
  IF p = "" THEN <<cur>>
  ELSE IF Head(p) = "|" THEN <<cur>> \o SplitBarFrom(Tail(p), "")
  ELSE SplitBarFrom(Tail(p), cur \o Head(p))

\* regex.test(text) with the 'i' flag, for a pattern of literal alternatives
RegExpTest(pattern, text) ==
  LET alternatives == SplitBarFrom(pattern, "")
  IN \E k \in 1..Len(alternatives) :
       includes(toLowerCase(text), toLowerCase(alternatives[k]))

\* String(v), the conversion regex.test applies to its argument
ToJsString(v) == IF IsString(v) THEN v.value ELSE v.type

\* index of the first pattern that throws or matches; 0 if there is none
RECURSIVE FirstDecisive(_, _, _)
FirstDecisive(text, patterns, k) ==
  IF k > Len(patterns) THEN 0
  ELSE IF RegExpThrows(patterns[k].pattern) THEN k
  ELSE IF RegExpTest(patterns[k].pattern, text) THEN k
  ELSE FirstDecisive(text, patterns, k + 1)

detectIntentThrows(query, patterns) ==
  LET k == FirstDecisive(ToJsString(query), patterns, 1)
  IN k # 0 /\ RegExpThrows(patterns[k].pattern)

\* a detectIntent that passes over the patterns whose confidence_threshold
\* is above the confidence of the generative answer
detectIntentAboveThreshold(query, patterns) ==
  LET Reached(pattern) == Le(pattern.confidence_threshold, Rat(8, 10))
      k == FirstDecisive(ToJsString(query), SelectSeq(patterns, Reached), 1)
  IN IF k = 0 THEN "general_inquiry" ELSE SelectSeq(patterns, Reached)[k].intent

\* the value returned when detectIntent does not throw
detectIntent(query, patterns) ==
  LET k == FirstDecisive(ToJsString(query), patterns, 1)
  IN IF k = 0 THEN "general_inquiry" ELSE patterns[k].intent

(***************************************************************************)
(* Generative fallback.  An outcome describes what the HTTP exchange with  *)
(* the model does: fetch rejects, or it resolves with a status and a body  *)
(* that parses as JSON or not, holding a candidate text or none.           *)
(***************************************************************************)
UnableMessage == "I apologize, but I am unable to process your request at the moment."
TechnicalMessage == "I apologize, but I am experiencing technical difficulties. Please try again later."

GeminiOutcome(fetchRejects, status, bodyIsJson, text) ==
  [fetchRejects |-> fetchRejects, status |-> status, bodyIsJson |-> bodyIsJson, text |-> text]

GeminiOutcomes ==
  { GeminiOutcome(TRUE, 0, FALSE, undefined),
    GeminiOutcome(FALSE, 200, TRUE, Str("You can ride it in light rain.")),
    GeminiOutcome(FALSE, 200, TRUE, undefined),
    GeminiOutcome(FALSE, 200, TRUE, Str("")),
    GeminiOutcome(FALSE, 500, TRUE, undefined),
    GeminiOutcome(FALSE, 502, FALSE, undefined) }

callGeminiAPI(outcome) ==
  IF outcome.fetchRejects \/ ~outcome.bodyIsJson
  THEN [answer |-> TechnicalMessage, confidence |-> Rat(1, 10)]
  ELSE [answer |-> IF IsString(outcome.text) /\ outcome.text.value # ""
                   THEN outcome.text.value
                   ELSE UnableMessage,
        confidence |-> Rat(8, 10)]

(***************************************************************************)
(* Suggestion generator.                                                   *)
(***************************************************************************)
\* a static list of two questions
generalQuestionsShort ==
  <<"How do I track my order?",
    "What is the warranty policy?">>

generalQuestions ==
  <<"How do I track my order?",
    "What is the warranty policy?",
    "How do I contact customer support?">>

RECURSIVE MatchedSuggestions(_, _, _, _)
MatchedSuggestions(queryWords, qaItems, k, suggestions) ==
  IF k > Len(qaItems) THEN suggestions
  ELSE LET itemWords == splitSpace(toLowerCase(qaItems[k].question))
           Common(word) == arrayIncludes(itemWords, word)
           commonWords == SelectSeq(queryWords, Common)
       IN MatchedSuggestions(queryWords, qaItems, k + 1,
            IF Len(commonWords) > 0 /\ Len(suggestions) < 3
            THEN Append(suggestions, qaItems[k].question)
            ELSE suggestions)

RECURSIVE PadSuggestions(_, _)
PadSuggestions(suggestions, k) ==
  IF k > Len(generalQuestions) THEN suggestions
  ELSE PadSuggestions(
         IF Len(suggestions) < 3 /\ ~arrayIncludes(suggestions, generalQuestions[k])
         THEN Append(suggestions, generalQuestions[k])
         ELSE suggestions,
         k + 1)

\* query is a string here
generateSuggestedQuestions(query, qaItems) ==
  LET queryWords == splitSpace(toLowerCase(query))
      suggestions == MatchedSuggestions(queryWords, qaItems, 1, <<>>)
  IN IF Len(suggestions) < 3 THEN PadSuggestions(suggestions, 1) ELSE suggestions

(***************************************************************************)
(* The store and the requests the model runs on.                           *)
(***************************************************************************)
\* largest view counter a row holds before the first request
MaxViewCount == 2

\* the two requests the function may be serving at the same time
Invocations == {1, 2}

QaRow(id, question, answer, keywords, category_id, view_count, is_active) ==
  [id |-> id, question |-> question, answer |-> answer, keywords |-> keywords,
   category_id |-> category_id, view_count |-> view_count, is_active |-> is_active]

\* table qa_items, every row holding the view counter v
QaTable(v) ==
  << QaRow("q1", "What is the return policy?", "Returns are accepted within 30 days.",
           Arr(<<"return", "refund">>), Str("c1"), v, TRUE),
     QaRow("q2", "How fast does the scooter go?", "Up to 25 km/h.",
           Arr(<<"speed">>), Str("c2"), v, TRUE),
     QaRow("q3", "How long does the battery last?", "About 40 km per charge.",
           null, Str("c2"), v, TRUE),
     QaRow("q4", "How do I get a refund?", "Contact support with your order number.",
           Arr(<<"refund">>), Str("c1"), v, FALSE) >>

ViewCounts == {null} \cup {Num(n) : n \in 0..MaxViewCount}

PatternRow(pattern, intent, confidence_threshold, is_active) ==
  [pattern |-> pattern, intent |-> intent, confidence_threshold |-> confidence_threshold,
   is_active |-> is_active]

\* contents of table intent_patterns
PatternTables ==
  { <<>>,
    << PatternRow("track|order", "order_tracking", Rat(99, 100), TRUE),
       PatternRow("hello", "smalltalk", Rat(7, 10), FALSE),
       PatternRow("Weight|Size", "specifications", Zero, TRUE) >>,
    << PatternRow("track|order", "order_tracking", Rat(7, 10), TRUE),
       PatternRow("refund(", "refund_request", Rat(7, 10), TRUE) >> }

Queries ==
  { Str("What is your return policy?"),
    Str("how fast can it go"),
    Str("scooters weight"),
    Str("track my order"),
    Str(""),
    Num(42) }

\* a request: its method and its body, which is not JSON or is an object
\* that holds a query or not
Request(method, bodyIsJson, body) ==
  [method |-> method, bodyIsJson |-> bodyIsJson, body |-> body]

Requests ==
  { Request("OPTIONS", FALSE, [sessionId |-> Str("s1")]),
    Request("POST", FALSE, [sessionId |-> Str("s1")]),
    Request("POST", TRUE, [sessionId |-> Str("s1")]) }
  \cup { Request("POST", TRUE, [query |-> q, sessionId |-> Str("s1")]) : q \in Queries }

\* the confidence a match has to exceed for its answer to be served
Threshold == Rat(3, 10)

\* the router's test written with >= in place of >
ReachesThreshold(match) == match # null /\ ~Gt(Threshold, match.confidence)

\* bestMatch && bestMatch.confidence > 0.3
ExceedsThreshold(match) == match # null /\ Gt(match.confidence, Threshold)

(***************************************************************************)
(* State: the three tables, and for each invocation of the handler its     *)
(* position, its local variables, the requests it has issued to its        *)
(* collaborators and the HTTP response it has returned.                    *)
(***************************************************************************)
VARIABLES qa_items, intent_patterns, messages,
          pc, query, sessionId, qaResult, intentResult, qaItems, intentPatterns,
          bestMatch, response, confidence, matchedIntent, relatedItems,
          responseSource, geminiOutcome, updateResult, suggestedQuestions,
          messageData, messageError, issued, httpResponse,
          inputs, outputs

tables == <<qa_items, intent_patterns, messages>>
fetched == <<qaResult, intentResult, qaItems, intentPatterns, bestMatch>>
routed == <<response, confidence, matchedIntent, relatedItems, responseSource>>
vars == <<qa_items, intent_patterns, messages,
          pc, query, sessionId, qaResult, intentResult, qaItems, intentPatterns,
          bestMatch, response, confidence, matchedIntent, relatedItems,
          responseSource, geminiOutcome, updateResult, suggestedQuestions,
          messageData, messageError, issued, httpResponse,
          inputs, outputs>>

\* the inputs and the outputs of a function applied on its own, outside
\* the handler (SpecMatcher, SpecWords, SpecLexical)
applied == <<inputs, outputs>>

NothingIssued == [select |-> 0, update |-> <<>>, gemini |-> 0, insert |-> <<>>]

\* the locals of the handler before it has run: the let declarations of
\* the handler, and nothing fetched, issued or returned
LocalsInit ==
  /\ sessionId = [i \in Invocations |-> undefined]
  /\ qaResult = [i \in Invocations |-> null]
  /\ intentResult = [i \in Invocations |-> null]
  /\ intentPatterns = [i \in Invocations |-> <<>>]
  /\ bestMatch = [i \in Invocations |-> null]
  /\ response = [i \in Invocations |-> ""]
  /\ confidence = [i \in Invocations |-> Zero]
  /\ matchedIntent = [i \in Invocations |-> ""]
  /\ relatedItems = [i \in Invocations |-> <<>>]
  /\ responseSource = [i \in Invocations |-> "ai"]
  /\ geminiOutcome = [i \in Invocations |-> null]
  /\ updateResult = [i \in Invocations |-> null]
  /\ suggestedQuestions = [i \in Invocations |-> <<>>]
  /\ messageData = [i \in Invocations |-> null]
  /\ messageError = [i \in Invocations |-> null]
  /\ issued = [i \in Invocations |-> NothingIssued]
  /\ httpResponse = [i \in Invocations |-> null]

\* no request received
Idle ==
  /\ pc = [i \in Invocations |-> "idle"]
  /\ query = [i \in Invocations |-> undefined]
  /\ qaItems = [i \in Invocations |-> <<>>]
  /\ LocalsInit

Init ==
  /\ \E v \in ViewCounts : qa_items = QaTable(v)
  /\ intent_patterns \in PatternTables
  /\ messages = <<>>
  /\ Idle
  /\ inputs = null
  /\ outputs = null

\* a catch clause that reports the error with the default status
ErrorResponseDefaultStatus(message) == [status |-> 200, body |-> [error |-> message]]

\* the catch clause of the handler: status 500 and the message of the error
ErrorResponse(message) == [status |-> 500, body |-> [error |-> message]]

NotAFunction == "query.toLowerCase is not a function"
CannotRead == "Cannot read properties of undefined (reading 'toLowerCase')"

\* the message of the TypeError of query.toLowerCase() for a query that is
\* not a string
ToLowerCaseError(v) == IF v = undefined \/ v = null THEN CannotRead ELSE NotAFunction
InvalidRegExp == "Invalid regular expression"
InvalidJson == "Unexpected token in JSON"

\* .select(...).eq('is_active', true) on qa_items: the selected columns of
\* the active rows, in table order
SelectQaItems(table) ==
  LET Active(row) == row.is_active
      rows == SelectSeq(table, Active)
  IN [k \in 1..Len(rows) |->
        [id |-> rows[k].id, question |-> rows[k].question, answer |-> rows[k].answer,
         keywords |-> rows[k].keywords, category_id |-> rows[k].category_id]]

\* .select('*').eq('is_active', true) on intent_patterns
SelectIntentPatterns(table) == SelectSeq(table, LAMBDA row : row.is_active)

\* what a store call resolves to: the client reports a failure in the error
\* field and never rejects
StoreResult(fails, data) ==
  IF fails THEN [data |-> null, error |-> TRUE] ELSE [data |-> data, error |-> FALSE]

\* a loader that falls back to a built-in entry list instead of the empty one
DataOrBuiltin(result) ==
  IF result.data = null
  THEN << [id |-> "builtin", question |-> "How do I contact customer support?",
           answer |-> "Write to support.", keywords |-> null, category_id |-> null] >>
  ELSE result.data.value

\* result.data || []
DataOrEmpty(result) == IF result.data = null THEN <<>> ELSE result.data.value

(***************************************************************************)
(* serve handler, up to the first await: the OPTIONS branch and            *)
(* await req.json().                                                       *)
(***************************************************************************)
Receive(i, request) ==
  /\ pc[i] = "idle"
  /\ IF request.method = "OPTIONS"
     THEN /\ httpResponse' = [httpResponse EXCEPT ![i] = [status |-> 200, body |-> null]]
          /\ pc' = [pc EXCEPT ![i] = "done"]
          /\ UNCHANGED <<query, sessionId>>
     ELSE IF ~request.bodyIsJson
     THEN /\ httpResponse' = [httpResponse EXCEPT ![i] = ErrorResponse(InvalidJson)]
          /\ pc' = [pc EXCEPT ![i] = "done"]
          /\ UNCHANGED <<query, sessionId>>
     ELSE /\ query' = [query EXCEPT ![i] =
                         IF "query" \in DOMAIN request.body THEN request.body.query ELSE undefined]
          /\ sessionId' = [sessionId EXCEPT ![i] =
                         IF "sessionId" \in DOMAIN request.body THEN request.body.sessionId ELSE undefined]
          /\ pc' = [pc EXCEPT ![i] = "fetch"]
          /\ UNCHANGED httpResponse
  /\ UNCHANGED <<tables, fetched, routed, geminiOutcome, updateResult,
                 suggestedQuestions, messageData, messageError, issued, applied>>

(***************************************************************************)
(* The two selects resolve; findBestMatch runs and the router picks its    *)
(* branch, up to the await of the view_count update or of the generative   *)
(* call.                                                                   *)
(***************************************************************************)
FetchAndRoute(i, qaFails, intentFails) ==
  /\ pc[i] = "fetch"
  /\ LET qaRes == StoreResult(qaFails, Arr(SelectQaItems(qa_items)))
         intentRes == StoreResult(intentFails, Arr(SelectIntentPatterns(intent_patterns)))
         items == DataOrEmpty(qaRes)
         \* findBestMatch calls query.toLowerCase() once per item
         throws == ~IsString(query[i]) /\ Len(items) > 0
         best == IF Len(items) = 0 THEN null ELSE findBestMatch(query[i].value, items)
     IN /\ qaResult' = [qaResult EXCEPT ![i] = qaRes]
        /\ intentResult' = [intentResult EXCEPT ![i] = intentRes]
        /\ qaItems' = [qaItems EXCEPT ![i] = items]
        /\ intentPatterns' = [intentPatterns EXCEPT ![i] = DataOrEmpty(intentRes)]
        /\ issued' = [issued EXCEPT ![i].select = 2]
        /\ IF throws
           THEN /\ httpResponse' = [httpResponse EXCEPT ![i] = ErrorResponse(ToLowerCaseError(query[i]))]
                /\ pc' = [pc EXCEPT ![i] = "done"]
                /\ UNCHANGED <<bestMatch, routed>>
           ELSE /\ bestMatch' = [bestMatch EXCEPT ![i] = best]
                /\ UNCHANGED httpResponse
                /\ IF ExceedsThreshold(best)
                   THEN /\ response' = [response EXCEPT ![i] = best.item.answer]
                        /\ confidence' = [confidence EXCEPT ![i] = best.confidence]
                        /\ responseSource' = [responseSource EXCEPT ![i] = "qa_database"]
                        /\ relatedItems' = [relatedItems EXCEPT ![i] = findRelatedItems(best.item, items)]
                        /\ pc' = [pc EXCEPT ![i] = "update"]
                        /\ UNCHANGED matchedIntent
                   ELSE /\ pc' = [pc EXCEPT ![i] = "gemini"]
                        /\ UNCHANGED routed
  /\ UNCHANGED <<tables, query, sessionId, geminiOutcome, updateResult,
                 suggestedQuestions, messageData, messageError, applied>>

(***************************************************************************)
(* FAQ branch: the view_count update resolves (its result is discarded),   *)
(* then generateSuggestedQuestions runs, up to the await of the insert.    *)
(***************************************************************************)
\* the object passed to .update(): bestMatch.item.view_count + 1
ViewCountUpdate(match) ==
  [id |-> match.item.id, view_count |-> Num(match.item.view_count.value + 1)]

\* an update without the .eq('id', id) filter: every row takes the value
ApplyUpdateAll(table, update) ==
  [k \in 1..Len(table) |-> [table[k] EXCEPT !.view_count = update.view_count]]

\* an update the store applies as an increment of the stored counter
ApplyIncrement(table, update) ==
  [k \in 1..Len(table) |->
     IF table[k].id = update.id /\ IsNumber(table[k].view_count)
     THEN [table[k] EXCEPT !.view_count = Num(@.value + 1)]
     ELSE table[k]]

\* .update({ view_count }).eq('id', id) applied to the table
ApplyUpdate(table, update) ==
  [k \in 1..Len(table) |->
     IF table[k].id = update.id
     THEN [table[k] EXCEPT !.view_count = update.view_count]
     ELSE table[k]]

\* a handler that throws the error of the view_count update
UpdateViewCountOrThrow(i, fails) ==
  /\ pc[i] = "update"
  /\ LET update == ViewCountUpdate(bestMatch[i])
     IN /\ qa_items' = IF fails THEN qa_items ELSE ApplyUpdate(qa_items, update)
        /\ issued' = [issued EXCEPT ![i].update = Append(@, update)]
  /\ updateResult' = [updateResult EXCEPT ![i] = StoreResult(fails, null)]
  /\ IF fails
     THEN /\ httpResponse' = [httpResponse EXCEPT ![i] = ErrorResponse("update failed")]
          /\ pc' = [pc EXCEPT ![i] = "done"]
          /\ UNCHANGED suggestedQuestions
     ELSE /\ suggestedQuestions' = [suggestedQuestions EXCEPT ![i] =
                                      generateSuggestedQuestions(query[i].value, qaItems[i])]
          /\ pc' = [pc EXCEPT ![i] = "insert"]
          /\ UNCHANGED httpResponse
  /\ UNCHANGED <<intent_patterns, messages, query, sessionId, fetched, routed,
                 geminiOutcome, messageData, messageError, applied>>

UpdateViewCount(i, fails) ==
  /\ pc[i] = "update"
  /\ LET update == ViewCountUpdate(bestMatch[i])
     IN /\ qa_items' = IF fails THEN qa_items ELSE ApplyUpdate(qa_items, update)
        /\ issued' = [issued EXCEPT ![i].update = Append(@, update)]
  /\ updateResult' = [updateResult EXCEPT ![i] = StoreResult(fails, null)]
  /\ suggestedQuestions' = [suggestedQuestions EXCEPT ![i] =
                              generateSuggestedQuestions(query[i].value, qaItems[i])]
  /\ pc' = [pc EXCEPT ![i] = "insert"]
  /\ UNCHANGED <<intent_patterns, messages, query, sessionId, fetched, routed,
                 geminiOutcome, messageData, messageError, httpResponse, applied>>

(***************************************************************************)
(* Fallback branch: the generative call resolves, then detectIntent and    *)
(* generateSuggestedQuestions run, up to the await of the insert.          *)
(***************************************************************************)
CallGemini(i, outcome) ==
  /\ pc[i] = "gemini"
  /\ LET geminiResponse == callGeminiAPI(outcome)
     IN /\ response' = [response EXCEPT ![i] = geminiResponse.answer]
        /\ confidence' = [confidence EXCEPT ![i] = geminiResponse.confidence]
  /\ geminiOutcome' = [geminiOutcome EXCEPT ![i] = outcome]
  /\ issued' = [issued EXCEPT ![i].gemini = @ + 1]
  /\ IF detectIntentThrows(query[i], intentPatterns[i])
     THEN /\ httpResponse' = [httpResponse EXCEPT ![i] = ErrorResponse(InvalidRegExp)]
          /\ pc' = [pc EXCEPT ![i] = "done"]
          /\ UNCHANGED <<matchedIntent, suggestedQuestions>>
     ELSE /\ matchedIntent' = [matchedIntent EXCEPT ![i] = detectIntent(query[i], intentPatterns[i])]
          \* generateSuggestedQuestions starts with query.toLowerCase()
          /\ IF ~IsString(query[i])
             THEN /\ httpResponse' = [httpResponse EXCEPT ![i] = ErrorResponse(ToLowerCaseError(query[i]))]
                  /\ pc' = [pc EXCEPT ![i] = "done"]
                  /\ UNCHANGED suggestedQuestions
             ELSE /\ suggestedQuestions' = [suggestedQuestions EXCEPT ![i] =
                                              generateSuggestedQuestions(query[i].value, qaItems[i])]
                  /\ pc' = [pc EXCEPT ![i] = "insert"]
                  /\ UNCHANGED httpResponse
  /\ UNCHANGED <<tables, query, sessionId, fetched, relatedItems, responseSource,
                 updateResult, messageData, messageError, applied>>

(***************************************************************************)
(* The insert of the assistant message resolves and the handler returns    *)
(* its response.                                                           *)
(***************************************************************************)
\* a record that tags every message as coming from the generative model
MessageRecordSourceAi(i) ==
  [session_id |-> sessionId[i],
   message_type |-> "assistant",
   content |-> response[i],
   metadata |-> [query |-> query[i],
                 suggested_questions |-> suggestedQuestions[i],
                 confidence_score |-> confidence[i],
                 matched_intent |-> matchedIntent[i],
                 related_qa_items |-> relatedItems[i],
                 response_source |-> "ai"]]

\* the object passed to .insert()
MessageRecord(i) ==
  [session_id |-> sessionId[i],
   message_type |-> "assistant",
   content |-> response[i],
   metadata |-> [query |-> query[i],
                 suggested_questions |-> suggestedQuestions[i],
                 confidence_score |-> confidence[i],
                 matched_intent |-> matchedIntent[i],
                 related_qa_items |-> relatedItems[i],
                 response_source |-> responseSource[i]]]

\* the row the table stores for a record: the record and a fresh id
StoredMessage(record, table) ==
  [f \in DOMAIN record \cup {"id"} |->
     IF f = "id" THEN "m" \o ToString(Len(table) + 1) ELSE record[f]]

\* a response object whose messageId is null when there is no message row
ResponseBodyNullId(i, data) ==
  [response |-> response[i], confidence |-> confidence[i],
   suggestedQuestions |-> suggestedQuestions[i], relatedItems |-> relatedItems[i],
   messageId |-> IF data = null THEN "null" ELSE data.id]

\* JSON.stringify of the response object: a property whose value is
\* undefined (messageData?.id without messageData) is left out
ResponseBody(i, data) ==
  [f \in {"response", "confidence", "suggestedQuestions", "relatedItems"}
          \cup (IF data = null THEN {} ELSE {"messageId"}) |->
     CASE f = "response" -> response[i]
       [] f = "confidence" -> confidence[i]
       [] f = "suggestedQuestions" -> suggestedQuestions[i]
       [] f = "relatedItems" -> relatedItems[i]
       [] f = "messageId" -> data.id]

\* a handler that throws the error of the insert
RespondOrThrow(i, data) ==
  IF data = null
  THEN ErrorResponse("insert failed")
  ELSE [status |-> 200, body |-> ResponseBody(i, data)]

\* messageError is logged; the handler returns the response object
Respond(i, data) == [status |-> 200, body |-> ResponseBody(i, data)]

InsertMessage(i, fails) ==
  /\ pc[i] = "insert"
  /\ LET record == MessageRecord(i)
         data == IF fails THEN null ELSE StoredMessage(record, messages)
     IN /\ messages' = IF fails THEN messages ELSE Append(messages, data)
        /\ messageData' = [messageData EXCEPT ![i] = data]
        /\ messageError' = [messageError EXCEPT ![i] = IF fails THEN Str("insert failed") ELSE null]
        /\ issued' = [issued EXCEPT ![i].insert = Append(@, record)]
        /\ httpResponse' = [httpResponse EXCEPT ![i] = Respond(i, data)]
  /\ pc' = [pc EXCEPT ![i] = "done"]
  /\ UNCHANGED <<qa_items, intent_patterns, query, sessionId, fetched, routed,
                 geminiOutcome, updateResult, suggestedQuestions, applied>>

(***************************************************************************)
(* Spec: one request, with every request of Requests and every outcome of  *)
(* every collaborator call.                                                *)
(***************************************************************************)
Solo == {1}

Next ==
  \/ \E i \in Solo, request \in Requests : Receive(i, request)
  \/ \E i \in Solo, qaFails \in BOOLEAN, intentFails \in BOOLEAN :
       FetchAndRoute(i, qaFails, intentFails)
  \/ \E i \in Solo, fails \in BOOLEAN : UpdateViewCount(i, fails)
  \/ \E i \in Solo, outcome \in GeminiOutcomes : CallGemini(i, outcome)
  \/ \E i \in Solo, fails \in BOOLEAN : InsertMessage(i, fails)

Spec == Init /\ [][Next]_vars

(***************************************************************************)
(* SpecLive: Spec, where every awaited collaborator call (the selects,     *)
(* the view_count update, the generative call, the insert) eventually      *)
(* resolves or fails, and the continuation after the await then runs.      *)
(***************************************************************************)
Resolve ==
  \/ \E i \in Solo, qaFails \in BOOLEAN, intentFails \in BOOLEAN :
       FetchAndRoute(i, qaFails, intentFails)
  \/ \E i \in Solo, fails \in BOOLEAN : UpdateViewCount(i, fails)
  \/ \E i \in Solo, outcome \in GeminiOutcomes : CallGemini(i, outcome)
  \/ \E i \in Solo, fails \in BOOLEAN : InsertMessage(i, fails)

\* the positions at which the handler awaits a collaborator
Awaits == {"fetch", "update", "gemini", "insert"}

\* ENABLED <<Resolve>>_vars: the only guard of each action of Resolve is
\* the position of the invocation, and each changes that position
Awaiting == \E i \in Solo : pc[i] \in Awaits

\* weak fairness of Resolve, WF_vars(Resolve), written out as
\* []<>~ENABLED <<Resolve>>_vars \/ []<><<Resolve>>_vars
SpecLive == Init /\ [][Next]_vars /\ ([]<>(~Awaiting) \/ []<><<Resolve>>_vars)

(***************************************************************************)
(* SpecSeq: two requests served one after the other (the second is         *)
(* received when the first has been answered), the selects succeeding.     *)
(***************************************************************************)
RepeatRequests ==
  { Request("POST", TRUE, [query |-> q, sessionId |-> Str("s1")]) :
      q \in {Str("What is your return policy?"), Str("how fast can it go"),
             Str("scooters weight")} }

InTurn(i) == \A j \in Invocations \ {i} : pc[j] \in {"idle", "done"}

NextSeq ==
  \/ \E i \in Invocations, request \in RepeatRequests : InTurn(i) /\ Receive(i, request)
  \/ \E i \in Invocations : FetchAndRoute(i, FALSE, FALSE)
  \/ \E i \in Invocations, fails \in BOOLEAN : UpdateViewCount(i, fails)
  \/ \E i \in Invocations, outcome \in GeminiOutcomes : CallGemini(i, outcome)
  \/ \E i \in Invocations, fails \in BOOLEAN : InsertMessage(i, fails)

SpecSeq == Init /\ [][NextSeq]_vars

(***************************************************************************)
(* SpecMatcher: findBestMatch applied to queries of up to MaxWords words   *)
(* and to lists of up to MaxItems entries.                                 *)
(***************************************************************************)
MaxWords == 2
MaxItems == 2

MatcherWords == {"return", "returns", "refunds", "model", "types", "is", "Speed"}

\* the strings of at most n words of MatcherWords, separated by one space
RECURSIVE Phrases(_)
Phrases(n) ==
  IF n = 0 THEN {""}
  ELSE LET shorter == Phrases(n - 1)
       IN shorter \cup {IF p = "" THEN w ELSE p \o " " \o w : p \in shorter, w \in MatcherWords}

MatcherItem(id, question, keywords, category_id) ==
  [id |-> id, question |-> question, answer |-> "Answer " \o id, keywords |-> keywords,
   category_id |-> category_id]

MatcherItems ==
  { MatcherItem("e1", "What is the return policy?", Arr(<<"return", "refund">>), Str("c1")),
    MatcherItem("e2", "Compare the model types", null, Str("c1")),
    MatcherItem("e3", "Refund", Arr(<<>>), null),
    MatcherItem("e4", "Is it fast", Arr(<<"speed">>), Str("c2")),
    MatcherItem("e5", "What is the return policy?", Arr(<<"dispute">>), Str("c2")),
    MatcherItem("e6", "Return or returns", null, Str("c1")),
    MatcherItem("e7", "What is the warranty policy?", Arr(<<"warranty">>), null) }

\* the lists of at most n entries of MatcherItems, no entry twice
RECURSIVE ItemLists(_)
ItemLists(n) ==
  IF n = 0 THEN {<<>>}
  ELSE LET shorter == ItemLists(n - 1)
           Unused(l) == {x \in MatcherItems : \A k \in 1..Len(l) : l[k] # x}
       IN shorter \cup UNION {{Append(l, e) : e \in Unused(l)} : l \in shorter}

InitMatcher ==
  /\ qa_items = <<>>
  /\ intent_patterns = <<>>
  /\ messages = <<>>
  /\ pc = [i \in Invocations |-> IF i \in Solo THEN "match" ELSE "idle"]
  /\ \E q \in Phrases(MaxWords) :
       query = [i \in Invocations |-> IF i \in Solo THEN Str(q) ELSE undefined]
  /\ \E l \in ItemLists(MaxItems) :
       qaItems = [i \in Invocations |-> IF i \in Solo THEN l ELSE <<>>]
  /\ LocalsInit
  /\ inputs = null
  /\ outputs = null

\* const bestMatch = findBestMatch(query, qaItems); outputs records the
\* three scores and the final score findBestMatch computed for each entry,
\* in entry order
Match(i) ==
  /\ pc[i] = "match"
  /\ bestMatch' = [bestMatch EXCEPT ![i] = findBestMatch(query[i].value, qaItems[i])]
  /\ outputs' = [scores |-> [k \in 1..Len(qaItems[i]) |->
                               signalScores(query[i].value, qaItems[i][k])],
                 finalScores |-> [k \in 1..Len(qaItems[i]) |->
                                    finalScore(query[i].value, qaItems[i][k])]]
  /\ pc' = [pc EXCEPT ![i] = "matched"]
  /\ UNCHANGED <<tables, query, sessionId, qaResult, intentResult, qaItems,
                 intentPatterns, routed, geminiOutcome, updateResult,
                 suggestedQuestions, messageData, messageError, issued, httpResponse,
                 inputs>>

NextMatcher == \E i \in Solo : Match(i)

SpecMatcher == InitMatcher /\ [][NextMatcher]_vars

(***************************************************************************)
(* SpecSuggest: generateSuggestedQuestions applied to the queries and the  *)
(* entry lists of SpecMatcher; two of the entries hold the same question   *)
(* text under different ids.                                               *)
(***************************************************************************)
\* const suggestedQuestions = await generateSuggestedQuestions(query, qaItems)
Suggest(i) ==
  /\ pc[i] = "match"
  /\ suggestedQuestions' = [suggestedQuestions EXCEPT ![i] =
                              generateSuggestedQuestions(query[i].value, qaItems[i])]
  /\ pc' = [pc EXCEPT ![i] = "suggested"]
  /\ UNCHANGED <<tables, query, sessionId, fetched, routed, geminiOutcome,
                 updateResult, messageData, messageError, issued, httpResponse,
                 applied>>

NextSuggest == \E i \in Solo : Suggest(i)

SpecSuggest == InitMatcher /\ [][NextSuggest]_vars

(***************************************************************************)
(* SpecRelated: one request served on a table whose rows share categories  *)
(* in every way, for queries that select different rows; the selects of    *)
(* the entries succeed or fail.                                            *)
(***************************************************************************)
CategoryIds == {Str("c1"), Str("c2")}

\* table qa_items with six active rows and an inactive one; category[k] is
\* the category of the k-th of the first five active rows, the sixth has none
CategoryTable(category) ==
  << QaRow("t1", "What is the return policy?", "Returns are accepted within 30 days.",
           Arr(<<"return", "refund">>), category[1], Num(0), TRUE),
     QaRow("t2", "How do I get a refund?", "Contact support with your order number.",
           Arr(<<"refund">>), category[1], Num(0), FALSE),
     QaRow("t3", "How fast does the scooter go?", "Up to 25 km/h.",
           Arr(<<"speed">>), category[2], Num(0), TRUE),
     QaRow("t4", "How long does the battery last?", "About 40 km per charge.",
           null, category[3], Num(0), TRUE),
     QaRow("t5", "How do I track my order?", "Use the link in the confirmation mail.",
           Arr(<<"order">>), category[4], Num(0), TRUE),
     QaRow("t6", "Where is the service center?", "In every larger city.",
           Arr(<<"service">>), category[5], Num(0), TRUE),
     QaRow("t7", "Which payment methods are accepted?", "Card and transfer.",
           Arr(<<"payment">>), null, Num(0), TRUE) >>

InitRelated ==
  /\ \E category \in [1..5 -> CategoryIds] : qa_items = CategoryTable(category)
  /\ intent_patterns = <<>>
  /\ messages = <<>>
  /\ Idle
  /\ inputs = null
  /\ outputs = null

RelatedRequests ==
  { Request("POST", TRUE, [query |-> q, sessionId |-> Str("s1")]) :
      q \in {Str("What is your return policy?"), Str("how fast can it go"),
             Str("how\tfast can it go"), Str("track my order"),
             Str("scooters weight")} }

NextRelated ==
  \/ \E i \in Solo, request \in RelatedRequests : Receive(i, request)
  \/ \E i \in Solo, qaFails \in BOOLEAN : FetchAndRoute(i, qaFails, FALSE)
  \/ \E i \in Solo : UpdateViewCount(i, FALSE)
  \/ \E i \in Solo, outcome \in GeminiOutcomes : CallGemini(i, outcome)
  \/ \E i \in Solo : InsertMessage(i, FALSE)

SpecRelated == InitRelated /\ [][NextRelated]_vars

(***************************************************************************)
(* SpecScenario: the request "What is your return policy?" served on a     *)
(* table whose single row is the return-policy entry, with every outcome   *)
(* of every collaborator call.                                             *)
(***************************************************************************)
ScenarioQuery == "What is your return policy?"

ScenarioTable(v) ==
  << QaRow("q1", "What is the return policy?", "Returns are accepted within 30 days.",
           Arr(<<"return", "refund">>), Str("c1"), v, TRUE) >>

InitScenario ==
  /\ \E v \in ViewCounts : qa_items = ScenarioTable(v)
  /\ intent_patterns \in PatternTables
  /\ messages = <<>>
  /\ Idle
  /\ inputs = null
  /\ outputs = null

ScenarioRequest == Request("POST", TRUE, [query |-> Str(ScenarioQuery), sessionId |-> Str("s1")])

NextScenario ==
  \/ \E i \in Solo : Receive(i, ScenarioRequest)
  \/ \E i \in Solo, qaFails \in BOOLEAN, intentFails \in BOOLEAN :
       FetchAndRoute(i, qaFails, intentFails)
  \/ \E i \in Solo, fails \in BOOLEAN : UpdateViewCount(i, fails)
  \/ \E i \in Solo, outcome \in GeminiOutcomes : CallGemini(i, outcome)
  \/ \E i \in Solo, fails \in BOOLEAN : InsertMessage(i, fails)

SpecScenario == InitScenario /\ [][NextScenario]_vars

(***************************************************************************)
(* SpecWords: areSimilarWords applied to the pairs of Tokens, in both      *)
(* orders of its arguments.                                                *)
(***************************************************************************)
\* keys of the synonym table, words of its value lists (some in two lists,
\* one a key as well) and words outside the table
Tokens ==
  {"speed", "fast", "quick", "return", "refund", "policy", "warranty",
   "guarantee", "options", "models", "features", "differences", "scooter", ""}

\* a function of the module is about to be applied on its own: no table,
\* no request
Applying(position) ==
  /\ qa_items = <<>>
  /\ intent_patterns = <<>>
  /\ messages = <<>>
  /\ pc = [i \in Invocations |-> IF i \in Solo THEN position ELSE "idle"]
  /\ query = [i \in Invocations |-> undefined]
  /\ qaItems = [i \in Invocations |-> <<>>]
  /\ LocalsInit
  /\ outputs = null

InitWords ==
  /\ Applying("compare")
  /\ \E word1 \in Tokens, word2 \in Tokens : inputs = [word1 |-> word1, word2 |-> word2]

\* areSimilarWords(word1, word2) and areSimilarWords(word2, word1)
Compare(i) ==
  /\ pc[i] = "compare"
  /\ outputs' = [similar |-> areSimilarWords(inputs.word1, inputs.word2),
                 converse |-> areSimilarWords(inputs.word2, inputs.word1)]
  /\ pc' = [pc EXCEPT ![i] = "compared"]
  /\ UNCHANGED <<tables, query, sessionId, fetched, routed, geminiOutcome,
                 updateResult, suggestedQuestions, messageData, messageError,
                 issued, httpResponse, inputs>>

NextWords == \E i \in Solo : Compare(i)

SpecWords == InitWords /\ [][NextWords]_vars

(***************************************************************************)
(* SpecLexical: calculateSimilarity applied to a query and a question of   *)
(* up to MaxWords words each, and again with one more word at the end of   *)
(* both.                                                                    *)
(***************************************************************************)
LexicalWords == {"return", "returns", "the", "scooter"}

\* words that are in no phrase of LexicalWords
NewTokens == {"policy", "is", "scooters"}

\* the phrase p with the word w after it
WithWord(p, w) == IF p = "" THEN w ELSE p \o " " \o w

\* the strings of at most n words of LexicalWords, separated by one space
RECURSIVE LexicalPhrases(_)
LexicalPhrases(n) ==
  IF n = 0 THEN {""}
  ELSE LET shorter == LexicalPhrases(n - 1)
       IN shorter \cup {WithWord(p, w) : p \in shorter, w \in LexicalWords}

InitLexical ==
  /\ Applying("extend")
  /\ \E str1 \in LexicalPhrases(MaxWords), str2 \in LexicalPhrases(MaxWords),
        token \in NewTokens :
       inputs = [str1 |-> str1, str2 |-> str2, token |-> token]

\* calculateSimilarity(str1, str2), before and after the token is added
Extend(i) ==
  /\ pc[i] = "extend"
  /\ outputs' = [before |-> calculateSimilarity(inputs.str1, inputs.str2),
                 after |-> calculateSimilarity(WithWord(inputs.str1, inputs.token),
                                               WithWord(inputs.str2, inputs.token))]
  /\ pc' = [pc EXCEPT ![i] = "extended"]
  /\ UNCHANGED <<tables, query, sessionId, fetched, routed, geminiOutcome,
                 updateResult, suggestedQuestions, messageData, messageError,
                 issued, httpResponse, inputs>>

NextLexical == \E i \in Solo : Extend(i)

SpecLexical == InitLexical /\ [][NextLexical]_vars

(***************************************************************************)
(* SpecRace: two requests served at the same time; both invocations have   *)
(* received the result of their selects before either goes on to its       *)
(* update or to its generative call. The selects succeed.                  *)
(***************************************************************************)
RaceRequests ==
  { Request("POST", TRUE, [query |-> q, sessionId |-> Str("s1")]) :
      q \in {Str("What is your return policy?"), Str("scooters weight")} }

\* every invocation has received a request and the result of its selects
BothRead == \A j \in Invocations : pc[j] \notin {"idle", "fetch"}

NextRace ==
  \/ \E i \in Invocations, request \in RaceRequests : Receive(i, request)
  \/ \E i \in Invocations : FetchAndRoute(i, FALSE, FALSE)
  \/ \E i \in Invocations, fails \in BOOLEAN : BothRead /\ UpdateViewCount(i, fails)
  \/ \E i \in Invocations, outcome \in GeminiOutcomes : BothRead /\ CallGemini(i, outcome)
  \/ \E i \in Invocations, fails \in BOOLEAN : BothRead /\ InsertMessage(i, fails)

SpecRace == Init /\ [][NextRace]_vars

(***************************************************************************)
(* SpecPadded: findBestMatch and the branch of the router for a query of   *)
(* at most one word and for the same query with whitespace added before    *)
(* or after it.                                                            *)
(***************************************************************************)
Paddings == {<<" ", "">>, <<"", " ">>, <<"\t", "\n">>}

InitPadded ==
  /\ qa_items = <<>>
  /\ intent_patterns = <<>>
  /\ messages = <<>>
  /\ pc = [i \in Invocations |-> IF i \in Solo THEN "match" ELSE "idle"]
  /\ \E q \in Phrases(1) :
       query = [i \in Invocations |-> IF i \in Solo THEN Str(q) ELSE undefined]
  /\ \E l \in ItemLists(MaxItems) :
       qaItems = [i \in Invocations |-> IF i \in Solo THEN l ELSE <<>>]
  /\ LocalsInit
  /\ inputs = null
  /\ outputs = null

\* what the Matcher and the Router make of a query: the keyword signal of
\* every entry, the match and the branch taken
Outcome(queryText, items) ==
  LET best == findBestMatch(queryText, items)
  IN [keywordScores |-> [k \in 1..Len(items) |-> signalScores(queryText, items[k]).keywordScore],
      bestMatch |-> IF best = null THEN null
                    ELSE [id |-> best.item.id, confidence |-> best.confidence],
      responseSource |-> IF ExceedsThreshold(best) THEN "qa_database" ELSE "ai"]

MatchPadded(i, padding) ==
  /\ pc[i] = "match"
  /\ inputs' = padding
  /\ outputs' = [plain |-> Outcome(query[i].value, qaItems[i]),
                 padded |-> Outcome(padding[1] \o query[i].value \o padding[2], qaItems[i])]
  /\ pc' = [pc EXCEPT ![i] = "padded"]
  /\ UNCHANGED <<tables, query, sessionId, fetched, bestMatch, routed, geminiOutcome,
                 updateResult, suggestedQuestions, messageData, messageError, issued,
                 httpResponse>>

NextPadded == \E i \in Solo, padding \in Paddings : MatchPadded(i, padding)

SpecPadded == InitPadded /\ [][NextPadded]_vars

(***************************************************************************)
(* Properties.                                                             *)
(***************************************************************************)
\* the handler has returned a response other than the OPTIONS reply
WellFormed(i) ==
  pc[i] = "done" /\ httpResponse[i].status = 200 /\ httpResponse[i].body # null

ErrorOutcome(i) == pc[i] = "done" /\ httpResponse[i].status # 200

\* C2: findBestMatch returns no result, or one result whose entry is (by
\* id) a member of the entries it was given and whose confidence lies in
\* [0, 1].
C2_MatchResultInRange ==
  \A i \in Invocations :
    pc[i] = "matched" /\ bestMatch[i] # null =>
      /\ \E k \in 1..Len(qaItems[i]) : qaItems[i][k].id = bestMatch[i].item.id
      /\ Le(Zero, bestMatch[i].confidence)
      /\ Le(bestMatch[i].confidence, One)

\* a match whose confidence reaches the upper end of the range
C2_Witness ==
  \E i \in Invocations :
    pc[i] = "matched" /\ bestMatch[i] # null /\ bestMatch[i].confidence = One

\* the match of the query of invocation i against the entries it fetched
MatchOf(i) ==
  IF IsString(query[i]) /\ Len(qaItems[i]) > 0
  THEN findBestMatch(query[i].value, qaItems[i])
  ELSE null

\* the router of invocation i has picked its branch
Routed(i) == issued[i].select > 0 /\ (IsString(query[i]) \/ Len(qaItems[i]) = 0)

\* the generative call of invocation i is awaited or has resolved
GeminiCalled(i) == pc[i] = "gemini" \/ issued[i].gemini = 1

\* C1: the response source is "qa_database" exactly when the Matcher
\* returned a match whose confidence is strictly greater than the threshold;
\* then the response text is the matched entry's answer, the confidence is
\* the match confidence, the matched intent is empty and the generative
\* fallback is not called; in every other case the source is "ai" and the
\* generative fallback is called.
C1_RouterDecision ==
  \A i \in Invocations :
    Routed(i) =>
      LET match == MatchOf(i)
      IN /\ responseSource[i] \in {"qa_database", "ai"}
         /\ responseSource[i] = "qa_database"
              <=> (match # null /\ Gt(match.confidence, Threshold))
         /\ responseSource[i] = "qa_database" =>
              /\ response[i] = match.item.answer
              /\ confidence[i] = match.confidence
              /\ matchedIntent[i] = ""
              /\ issued[i].gemini = 0 /\ pc[i] # "gemini"
         /\ responseSource[i] = "ai" => GeminiCalled(i)

\* a response served from the FAQ entries
C1_Witness ==
  \E i \in Invocations : WellFormed(i) /\ responseSource[i] = "qa_database"

\* the view_count update of invocation i resolves without an error in this step
UpdateSucceeds(i) ==
  pc[i] = "update" /\ pc'[i] = "insert" /\ ~updateResult'[i].error

\* C3: each of n invocations served one after the other on the FAQ path
\* adds exactly 1 to the stored view_count of the entry it selected, so that
\* n of them add n, whatever number the counter held.
C3_ViewCountPlusOne ==
  [][\A i \in Invocations :
       UpdateSucceeds(i) =>
         \A k \in 1..Len(qa_items) :
           qa_items[k].id = bestMatch[i].item.id /\ IsNumber(qa_items[k].view_count) =>
             qa_items'[k].view_count = Num(qa_items[k].view_count.value + 1)]_vars

\* the generative call of invocation i has resolved, for a query that is a string
FallbackResolved(i) == IsString(query[i]) /\ geminiOutcome[i] # null

\* C4: when the generative call throws a network error the invocation ends
\* with a well-formed response holding the technical-difficulties text and
\* the confidence 0.1, persisted with the source "ai", never in the error
\* outcome.
C4_NetworkErrorRecovered ==
  \A i \in Invocations :
    pc[i] = "done" /\ FallbackResolved(i) /\ geminiOutcome[i].fetchRejects =>
      /\ WellFormed(i)
      /\ httpResponse[i].body.response = TechnicalMessage
      /\ httpResponse[i].body.confidence = Rat(1, 10)
      /\ Len(issued[i].insert) = 1
      /\ issued[i].insert[1].metadata.response_source = "ai"

\* the generative call answered, but with a status outside 2xx or without a
\* candidate text
AnsweredWithoutText(outcome) ==
  /\ ~outcome.fetchRejects
  /\ \/ outcome.status \notin 200..299
     \/ ~outcome.bodyIsJson
     \/ ~IsString(outcome.text)
     \/ outcome.text.value = ""

\* C5: when the generative call answers with a non-2xx status or without a
\* candidate text, the Router holds the technical-difficulties text, the
\* confidence 0.1 and the source "ai"; the confidence 0.8 goes only with a
\* text the model produced.
C5_FailedCallGetsLowConfidence ==
  \A i \in Invocations :
    FallbackResolved(i) =>
      /\ AnsweredWithoutText(geminiOutcome[i]) =>
           /\ response[i] = TechnicalMessage
           /\ confidence[i] = Rat(1, 10)
           /\ responseSource[i] = "ai"
      /\ confidence[i] = Rat(8, 10) =>
           /\ IsString(geminiOutcome[i].text)
           /\ response[i] = geminiOutcome[i].text.value

\* C6: an invocation that took the fallback path ends with a well-formed
\* response, never in the error outcome, whatever the generative call did
\* and whatever patterns were read.
C6_FallbackNeverFails ==
  \A i \in Invocations :
    pc[i] = "done" /\ FallbackResolved(i) => WellFormed(i)

\* the selects of invocation i have resolved
Fetched(i) == qaResult[i] # null

\* C7 as stated: when the fetch of the FaqEntry set or of the IntentPattern
\* set fails, the invocation ends in the error outcome, the generative
\* fallback is not called and no assistant message is written.
C7_FetchFailureIsFatal ==
  \A i \in Invocations :
    Fetched(i) /\ (qaResult[i].error \/ intentResult[i].error) =>
      /\ pc[i] = "done" => ErrorOutcome(i)
      /\ ~GeminiCalled(i)
      /\ issued[i].insert = <<>>

\* C7 amended: when the fetch of the FaqEntry set fails the handler goes on
\* with the empty entry set: the Matcher returns no match, the Router takes
\* the fallback path and the generative fallback is called; when the fetch
\* of the IntentPattern set fails the handler goes on with the empty pattern
\* set, so that the matched intent of the fallback path is
\* "general_inquiry".
C7_FetchFailureMeansEmptySet ==
  \A i \in Invocations :
    Fetched(i) =>
      /\ qaResult[i].error =>
           /\ qaItems[i] = <<>>
           /\ bestMatch[i] = null
           /\ responseSource[i] = "ai"
           /\ GeminiCalled(i)
      /\ intentResult[i].error =>
           /\ intentPatterns[i] = <<>>
           /\ issued[i].gemini = 1 => matchedIntent[i] = "general_inquiry"

\* a well-formed response of an invocation whose fetch of the entries failed
C7_Witness ==
  \E i \in Invocations :
    /\ WellFormed(i)
    /\ qaResult[i].error
    /\ issued[i].gemini = 1
    /\ Len(issued[i].insert) = 1

\* C8: when the insert of the assistant message fails, the invocation still
\* returns the response it computed: response text, confidence, suggested
\* questions and related items are those of the record it tried to write,
\* as they are when the insert succeeds; the insert is issued once and the
\* error outcome is not reached.
C8_InsertFailureKeepsResponse ==
  \A i \in Invocations :
    pc[i] = "done" /\ issued[i].insert # <<>> =>
      /\ WellFormed(i)
      /\ Len(issued[i].insert) = 1
      /\ httpResponse[i].body.response = issued[i].insert[1].content
      /\ httpResponse[i].body.confidence = issued[i].insert[1].metadata.confidence_score
      /\ httpResponse[i].body.suggestedQuestions = issued[i].insert[1].metadata.suggested_questions
      /\ httpResponse[i].body.relatedItems = issued[i].insert[1].metadata.related_qa_items
      /\ messageError[i] # null => messageData[i] = null

\* an FAQ answer returned although its message could not be written
C8_Witness ==
  \E i \in Invocations :
    /\ WellFormed(i)
    /\ messageError[i] # null
    /\ responseSource[i] = "qa_database"
    /\ httpResponse[i].body.response # ""

ResponseFields == {"response", "confidence", "suggestedQuestions", "relatedItems"}

\* C9 as stated: every well-formed output carries the five fields, and
\* messageId identifies the persisted assistant message record, also when
\* the insert failed.
C9_AlwaysFiveFields ==
  \A i \in Invocations :
    WellFormed(i) =>
      /\ DOMAIN httpResponse[i].body = ResponseFields \cup {"messageId"}
      /\ \E k \in 1..Len(messages) : messages[k].id = httpResponse[i].body.messageId

\* C9 amended: every well-formed output carries response, confidence,
\* suggestedQuestions and relatedItems; it carries messageId exactly when
\* the insert succeeded, and then messageId is the id of the stored
\* assistant message record, whose content is the response text; when the
\* insert failed the output has no messageId.
C9_MessageIdIffInserted ==
  \A i \in Invocations :
    WellFormed(i) =>
      /\ ResponseFields \subseteq DOMAIN httpResponse[i].body
      /\ DOMAIN httpResponse[i].body \subseteq ResponseFields \cup {"messageId"}
      /\ "messageId" \in DOMAIN httpResponse[i].body <=> messageError[i] = null
      /\ messageError[i] = null =>
           \E k \in 1..Len(messages) :
             /\ messages[k].id = httpResponse[i].body.messageId
             /\ messages[k].message_type = "assistant"
             /\ messages[k].content = httpResponse[i].body.response

\* a well-formed output without messageId
C9_Witness ==
  \E i \in Invocations :
    WellFormed(i) /\ messageError[i] # null /\ "messageId" \notin DOMAIN httpResponse[i].body

\* C10: no invocation issues more than one insert; an invocation that
\* returns a well-formed response has issued exactly one, after routing and
\* suggestion generation, carrying the response text, the confidence, the
\* matched intent, the related items, the response source, the query and
\* the suggestions; an invocation that ends in the error outcome has
\* issued none.
C10_ExactlyOneInsert ==
  \A i \in Invocations :
    /\ Len(issued[i].insert) <= 1
    /\ issued[i].insert # <<>> => pc[i] = "done" /\ Routed(i)
    /\ ErrorOutcome(i) => issued[i].insert = <<>>
    /\ WellFormed(i) =>
         /\ Len(issued[i].insert) = 1
         /\ LET record == issued[i].insert[1]
            IN /\ record.message_type = "assistant"
               /\ record.content = httpResponse[i].body.response
               /\ record.metadata.confidence_score = httpResponse[i].body.confidence
               /\ record.metadata.matched_intent = matchedIntent[i]
               /\ record.metadata.related_qa_items = httpResponse[i].body.relatedItems
               /\ record.metadata.response_source = responseSource[i]
               /\ record.metadata.query = query[i]
               /\ record.metadata.suggested_questions = httpResponse[i].body.suggestedQuestions
               /\ record.metadata.response_source = "qa_database"
                    <=> Len(issued[i].update) = 1 /\ issued[i].gemini = 0

\* a well-formed FAQ response with its one insert, stored
C10_Witness ==
  \E i \in Invocations :
    /\ WellFormed(i)
    /\ Len(issued[i].insert) = 1
    /\ issued[i].insert[1].metadata.response_source = "qa_database"
    /\ Len(messages) = 1

\* the handler has answered a request that is not the OPTIONS preflight
Ended(i) == pc[i] = "done" /\ httpResponse[i].body # null

\* the generic error payload: a non-success status and the error message alone
GenericError(i) ==
  /\ httpResponse[i].status \notin 200..299
  /\ DOMAIN httpResponse[i].body = {"error"}

\* the response object: a success status and the computed fields, no error
ResponseObject(i) ==
  /\ httpResponse[i].status \in 200..299
  /\ ResponseFields \subseteq DOMAIN httpResponse[i].body
  /\ "error" \notin DOMAIN httpResponse[i].body

\* C11: with every collaborator call eventually returning or failing,
\* every invocation that was received eventually ends, and an invocation
\* that has ended holds exactly one of the two outcomes: the response
\* object, or the generic error payload with a non-success status and
\* without response, confidence, suggestions or related items.
C11_EndsInOneOfTwoOutcomes ==
  /\ \A i \in Invocations : (pc[i] # "idle") ~> (pc[i] = "done")
  /\ [](\A i \in Invocations :
          Ended(i) => (GenericError(i) /\ ~ResponseObject(i))
                        \/ (ResponseObject(i) /\ ~GenericError(i)))

\* an invocation that ends in the error outcome after its generative call
\* had produced a response text and a confidence
C11_Witness ==
  \E i \in Invocations :
    /\ Ended(i)
    /\ GenericError(i)
    /\ issued[i].gemini = 1
    /\ response[i] # ""

\* the request of invocation i held no query, a query that is not a string,
\* or the empty string
EmptyOrMalformed(i) == pc[i] # "idle" /\ (~IsString(query[i]) \/ query[i] = Str(""))

\* C12: a request whose query is empty, absent or not a string never ends
\* in the error outcome: the Matcher produces no match, the confidence of
\* the match is 0 and the invocation ends with a well-formed response.
C12_MalformedQueryNeverFails ==
  \A i \in Invocations :
    Ended(i) /\ Fetched(i) /\ EmptyOrMalformed(i) =>
      /\ WellFormed(i)
      /\ bestMatch[i] = null
      /\ responseSource[i] = "ai"

\* findBestMatch has been applied to the empty query string
EmptyQueryMatched(i) == pc[i] = "matched" /\ query[i] = Str("")

\* C13: for the empty query string each of the three signals (lexical,
\* keyword, semantic) is zero for every entry, entries with a non-empty
\* keyword list included, and the Matcher returns no match whatever the
\* entry set.
C13_EmptyQueryAllSignalsZero ==
  \A i \in Invocations :
    EmptyQueryMatched(i) =>
      /\ bestMatch[i] = null
      /\ \A k \in 1..Len(outputs.scores) :
           /\ outputs.scores[k].questionScore = Zero
           /\ outputs.scores[k].keywordScore = Zero
           /\ outputs.scores[k].semanticScore = Zero

\* C14: generateSuggestedQuestions returns at most 3 items and no item
\* twice, for every query and every entry set whose entries are distinct by
\* id, whether or not their question texts are distinct.
C14_AtMostThreeNoDuplicate ==
  \A i \in Invocations :
    pc[i] = "suggested" =>
      /\ Len(suggestedQuestions[i]) <= 3
      /\ \A j, k \in 1..Len(suggestedQuestions[i]) :
           j # k => suggestedQuestions[i][j] # suggestedQuestions[i][k]

\* the positions, in the entries invocation i fetched, of the entries other
\* than its winning entry that hold the winning entry's category
SameCategory(i) ==
  {k \in 1..Len(qaItems[i]) :
     /\ qaItems[i][k].id # bestMatch[i].item.id
     /\ qaItems[i][k].category_id = bestMatch[i].item.category_id}

\* C15: on the FAQ path the related items are the ids of the first up to 3
\* entries of the active set, in input order, whose category equals the
\* winning entry's and whose id differs from it; the winning entry's id is
\* never among them; on the fallback path there are no related items.
C15_RelatedItems ==
  \A i \in Invocations :
    Routed(i) =>
      IF responseSource[i] = "qa_database"
      THEN /\ Len(relatedItems[i]) <= 3
           /\ Len(relatedItems[i]) = 3 \/ Len(relatedItems[i]) = Cardinality(SameCategory(i))
           /\ \A n \in 1..Len(relatedItems[i]) :
                /\ relatedItems[i][n] # bestMatch[i].item.id
                /\ \E row \in {qa_items[r] : r \in 1..Len(qa_items)} :
                     row.id = relatedItems[i][n] /\ row.is_active
                /\ \E k \in SameCategory(i) :
                     /\ qaItems[i][k].id = relatedItems[i][n]
                     /\ Cardinality({j \in SameCategory(i) : j < k}) = n - 1
      ELSE relatedItems[i] = <<>>

\* an FAQ answer with 3 related items although 4 other entries share the
\* winning entry's category
C15_Witness ==
  \E i \in Invocations :
    /\ WellFormed(i)
    /\ responseSource[i] = "qa_database"
    /\ Len(httpResponse[i].body.relatedItems) = 3
    /\ Cardinality(SameCategory(i)) = 4

\* detectIntent of invocation i has returned
IntentDetected(i) ==
  issued[i].gemini = 1 /\ ~detectIntentThrows(query[i], intentPatterns[i])

\* C16: on the fallback path the matched intent is the intent label of the
\* first pattern, in input order, that matches the query without regard to
\* case, and "general_inquiry" when no pattern matches or there is no
\* pattern; the confidence_threshold of a pattern has no part in it.
C16_FirstMatchingPattern ==
  \A i \in Invocations :
    IntentDetected(i) =>
      LET patterns == intentPatterns[i]
          Matches(k) == RegExpTest(patterns[k].pattern, ToJsString(query[i]))
      IN /\ (\A k \in 1..Len(patterns) : ~Matches(k)) =>
              matchedIntent[i] = "general_inquiry"
         /\ \A k \in 1..Len(patterns) :
              Matches(k) /\ (\A j \in 1..(k - 1) : ~Matches(j)) =>
                matchedIntent[i] = patterns[k].intent

\* a lower-case query matched by the upper-case pattern that comes second,
\* whose confidence_threshold is 0
C16_Witness ==
  \E i \in Invocations :
    /\ WellFormed(i)
    /\ query[i] = Str("scooters weight")
    /\ Len(intentPatterns[i]) = 2
    /\ intentPatterns[i][2].pattern = "Weight|Size"
    /\ matchedIntent[i] = "specifications"

\* the threshold of the scenario
ScenarioThreshold == Rat(4, 10)

\* invocation i has fetched the entry of the scenario and picked its branch
ScenarioRouted(i) == Routed(i) /\ ~qaResult[i].error

\* C17: for the query "What is your return policy?" and the single active
\* entry {"What is the return policy?", ["return", "refund"]} the lexical
\* signal is 1.0, the final score exceeds 0.4, the response source is
\* "qa_database", the returned confidence is 1.0, and the stored view_count
\* of the entry after the invocation is its previous value plus 1.
C17_ReturnPolicyScenario ==
  /\ [](\A i \in Invocations :
          ScenarioRouted(i) =>
            /\ calculateSimilarity(toLowerCase(query[i].value),
                                   toLowerCase(qaItems[i][1].question)) = One
            /\ Gt(bestMatch[i].confidence, ScenarioThreshold)
            /\ responseSource[i] = "qa_database"
            /\ confidence[i] = One
            /\ WellFormed(i) => httpResponse[i].body.confidence = One)
  /\ [][\A i \in Invocations :
          UpdateSucceeds(i) /\ IsNumber(qa_items[1].view_count) =>
            qa_items'[1].view_count = Num(qa_items[1].view_count.value + 1)]_vars

\* C18: areSimilarWords is symmetric: areSimilarWords(a, b) equals
\* areSimilarWords(b, a) for every pair of tokens.
C18_SimilarWordsSymmetric ==
  \A i \in Invocations :
    pc[i] = "compared" => outputs.similar = outputs.converse

\* a word of a value list found similar to its key, the key coming second
C18_Witness ==
  \E i \in Invocations :
    /\ pc[i] = "compared"
    /\ inputs.word1 = "fast"
    /\ inputs.word2 = "speed"
    /\ outputs.similar
    /\ outputs.converse

\* C19: adding one new token to both the query and the question, an exact
\* match shared by the two, never makes calculateSimilarity return less
\* than before.
C19_LexicalMonotonic ==
  \A i \in Invocations :
    pc[i] = "extended" => Le(outputs.before, outputs.after)

\* x is a number of the interval [0, 1]
InUnitInterval(x) == Le(Zero, x) /\ Le(x, One)

\* C20: each of the three signals computed for a query and an entry,
\* calculateSimilarity (lexical), calculateKeywordMatch (keyword) and
\* calculateSemanticSimilarity (semantic), lies in [0, 1].
C20_SignalsInUnitInterval ==
  \A i \in Invocations :
    pc[i] = "matched" =>
      \A k \in 1..Len(outputs.scores) :
        /\ InUnitInterval(outputs.scores[k].questionScore)
        /\ InUnitInterval(outputs.scores[k].keywordScore)
        /\ InUnitInterval(outputs.scores[k].semanticScore)

\* m is the largest of a, b and c
IsMaxOf(m, a, b, c) == m \in {a, b, c} /\ Le(a, m) /\ Le(b, m) /\ Le(c, m)

\* every word of the query of invocation i has at most 2 characters
OnlyShortWords(i) ==
  LET words == splitWhitespace(toLowerCase(query[i].value))
  IN \A k \in 1..Len(words) : Len(words[k]) <= 2

\* C21: the final score of every entry is the largest of 0.6 x lexical,
\* 0.8 x keyword and 1.0 x semantic; for a query all of whose words have at
\* most 2 characters and which overlaps the keywords of an entry, the final
\* score of that entry is 0.8 x its keyword signal, and an entry is
\* returned as the match.
C21_FinalScoreIsWeightedMax ==
  \A i \in Invocations :
    pc[i] = "matched" =>
      \A k \in 1..Len(outputs.scores) :
        /\ IsMaxOf(outputs.finalScores[k],
                   Times(outputs.scores[k].questionScore, Rat(6, 10)),
                   Times(outputs.scores[k].keywordScore, Rat(8, 10)),
                   outputs.scores[k].semanticScore)
        /\ OnlyShortWords(i) /\ Gt(outputs.scores[k].keywordScore, Zero) =>
             /\ outputs.finalScores[k] = Times(outputs.scores[k].keywordScore, Rat(8, 10))
             /\ bestMatch[i] # null

\* the positions of the entry returned as the match of invocation i
WinnerPositions(i) ==
  {w \in 1..Len(qaItems[i]) : qaItems[i][w].id = bestMatch[i].item.id}

\* C22: the entry findBestMatch returns has a final score at least that of
\* every other entry of the input, its confidence is that score, and every
\* entry before it in the input has a strictly lower final score (of
\* several entries sharing the highest score the first is returned).
C22_WinnerIsFirstHighest ==
  \A i \in Invocations :
    pc[i] = "matched" /\ bestMatch[i] # null =>
      /\ Cardinality(WinnerPositions(i)) = 1
      /\ \A w \in WinnerPositions(i) :
           /\ bestMatch[i].confidence = outputs.finalScores[w]
           /\ \A j \in 1..Len(qaItems[i]) :
                /\ Le(outputs.finalScores[j], outputs.finalScores[w])
                /\ j < w => Gt(outputs.finalScores[w], outputs.finalScores[j])

\* C22 witness: two entries share the highest final score and the first of
\* them is returned
C22_Witness ==
  \E i \in Invocations :
    /\ pc[i] = "matched" /\ bestMatch[i] # null
    /\ Len(qaItems[i]) = 2
    /\ outputs.finalScores[1] = outputs.finalScores[2]
    /\ bestMatch[i].item.id = qaItems[i][1].id

\* the largest contribution, in tenths, a query word has against any one of
\* the question words
BestContribution(queryWord, questionWords) ==
  LET each == {WordContribution(queryWord, <<questionWords[k]>>) : k \in 1..Len(questionWords)}
  IN IF each = {} THEN 0 ELSE CHOOSE c \in each : \A other \in each : other <= c

RECURSIVE SumBestContributions(_, _)
SumBestContributions(queryWords, questionWords) ==
  IF queryWords = <<>> THEN 0
  ELSE BestContribution(Head(queryWords), questionWords)
         + SumBestContributions(Tail(queryWords), questionWords)

\* the semantic signal with every query word contributing its best
\* contribution; the pattern bonuses and the cap are those of the code
BestSemanticSimilarity(queryText, question) ==
  LET LongWord(word) == Len(word) > 2
      queryWords == SelectSeq(splitWhitespace(toLowerCase(queryText)), LongWord)
      questionWords == SelectSeq(splitWhitespace(toLowerCase(question)), LongWord)
      boost == (IF includes(queryText, "model") /\ includes(question, "model") THEN 5 ELSE 0)
             + (IF includes(queryText, "difference") /\ includes(question, "difference") THEN 5 ELSE 0)
             + (IF /\ includes(queryText, "types")
                   /\ (includes(question, "model") \/ includes(question, "difference"))
                THEN 3 ELSE 0)
  IN MathMin(Div(SumBestContributions(queryWords, questionWords) + boost,
                 10 * Len(queryWords)), One)

\* C23: the semantic signal of every entry is the sum over the query words
\* of the best contribution each has against all question words (1.0 exact,
\* 0.8 synonym, 0.6 containment of words longer than 3 characters), whatever
\* the order of the question's words, divided by the number of query words
\* and capped at 1.0.
C23_BestContributionPerToken ==
  \A i \in Invocations :
    pc[i] = "matched" =>
      \A k \in 1..Len(qaItems[i]) :
        outputs.scores[k].semanticScore
          = BestSemanticSimilarity(query[i].value, qaItems[i][k].question)

\* the positions, in the entries invocation i fetched, of the entries whose
\* question shares a whitespace-separated token with the query
SharingToken(i) ==
  LET queryWords == splitWhitespace(toLowerCase(query[i].value))
  IN {k \in 1..Len(qaItems[i]) :
        \E n \in 1..Len(queryWords) :
          arrayIncludes(splitWhitespace(toLowerCase(qaItems[i][k].question)), queryWords[n])}

\* the positions of the static list whose item is not the question of one
\* of the first 3 entries sharing a token with the query
Padding(i) ==
  {g \in 1..Len(generalQuestions) :
     \A k \in SharingToken(i) :
       Cardinality({j \in SharingToken(i) : j < k}) < 3 =>
         qaItems[i][k].question # generalQuestions[g]}

\* generateSuggestedQuestions of invocation i has returned
Suggested(i) == pc[i] = "insert" \/ (pc[i] = "done" /\ Len(issued[i].insert) > 0)

\* C24: the suggestions are first the questions of the entries sharing a
\* whitespace token with the query, in entry order, and then, only when
\* these are fewer than 3, the items of the static list in its order that
\* are not already present; nothing else decides them, the path of the
\* Router included.
C24_SuggestionOrderAndPadding ==
  \A i \in Invocations :
    Suggested(i) =>
      LET matched == IF Cardinality(SharingToken(i)) < 3
                     THEN Cardinality(SharingToken(i)) ELSE 3
          total == IF matched + Cardinality(Padding(i)) < 3
                   THEN matched + Cardinality(Padding(i)) ELSE 3
      IN /\ Len(suggestedQuestions[i]) = total
         /\ \A m \in 1..total :
              IF m <= matched
              THEN \E k \in SharingToken(i) :
                     /\ Cardinality({j \in SharingToken(i) : j < k}) = m - 1
                     /\ suggestedQuestions[i][m] = qaItems[i][k].question
              ELSE \E g \in Padding(i) :
                     /\ Cardinality({h \in Padding(i) : h < g}) = m - matched - 1
                     /\ suggestedQuestions[i][m] = generalQuestions[g]

\* C25: the stored view_count of an entry never decreases: in every step
\* the value a row's view_count takes is a number, and it is at least the
\* number the row held just before.
C25_ViewCountNeverDecreases ==
  [][\A k \in 1..Len(qa_items) :
       qa_items'[k].view_count # qa_items[k].view_count =>
         /\ IsNumber(qa_items'[k].view_count)
         /\ IsNumber(qa_items[k].view_count) =>
              qa_items'[k].view_count.value >= qa_items[k].view_count.value]_vars

BothWrote ==
  \A i \in Invocations :
    /\ Len(issued[i].update) = 1
    /\ ~updateResult[i].error
    /\ issued[i].update[1].id = qa_items[1].id

\* the counter every row held before the first request: row 4 is inactive
\* and never selected
InitialViewCount == qa_items[4].view_count

\* C27: when two overlapping invocations, both having read before either
\* writes, have both written the counter of the same entry, the stored
\* counter is the value one of them wrote (the last write wins) and is
\* lower than the initial value plus 2.
C27_LostUpdate ==
  BothWrote /\ IsNumber(InitialViewCount) =>
    /\ \E i \in Invocations : qa_items[1].view_count = issued[i].update[1].view_count
    /\ qa_items[1].view_count.value < InitialViewCount.value + 2

\* C27 witness: both invocations took the FAQ path with the same entry,
\* both wrote, and the counter that started at 0 holds 1
C27_Witness ==
  /\ BothWrote
  /\ \A i \in Invocations : responseSource[i] = "qa_database" /\ bestMatch[i].item.id = "q1"
  /\ InitialViewCount = Num(0)
  /\ qa_items[1].view_count = Num(1)

\* C28: whitespace added before or after a query changes neither the
\* keyword signal of any entry, nor the entry findBestMatch returns and its
\* confidence, nor the branch the router takes.
C28_WhitespaceInvariance ==
  \A i \in Invocations :
    pc[i] = "padded" => outputs.padded = outputs.plain

\* C29: generateSuggestedQuestions returns exactly 3 items, for every query
\* and every entry set, the empty set included.
C29_ExactlyThreeSuggestions ==
  \A i \in Invocations :
    pc[i] = "suggested" => Len(suggestedQuestions[i]) = 3

\* C29 witness: the only matched question is one of the static list, and
\* the other two static questions fill the result up to 3
C29_Witness ==
  \E i \in Invocations :
    /\ pc[i] = "suggested"
    /\ Len(qaItems[i]) = 1
    /\ suggestedQuestions[i] = <<"What is the warranty policy?",
                                 "How do I track my order?",
                                 "How do I contact customer support?">>

\* the view_count update of invocation i has resolved
UpdateResolved(i) == updateResult[i] # null

\* C30: on the FAQ path, whether or not the store reports an error for the
\* view_count update, the update has been issued exactly once and before
\* the insert, the generative fallback is not called, the invocation goes
\* on to write the assistant message, and the response text, confidence,
\* related items and suggestions it stores and returns are those of the
\* match, the same as when the update succeeds.
C30_UpdateFailureIgnored ==
  \A i \in Invocations :
    /\ Len(issued[i].insert) > 0 /\ responseSource[i] = "qa_database" => UpdateResolved(i)
    /\ UpdateResolved(i) =>
         /\ responseSource[i] = "qa_database"
         /\ Len(issued[i].update) = 1
         /\ issued[i].gemini = 0
         /\ pc[i] = "insert" \/ (pc[i] = "done" /\ Len(issued[i].insert) = 1)
         /\ response[i] = bestMatch[i].item.answer
         /\ confidence[i] = bestMatch[i].confidence
         /\ relatedItems[i] = findRelatedItems(bestMatch[i].item, qaItems[i])
         /\ suggestedQuestions[i] = generateSuggestedQuestions(query[i].value, qaItems[i])
         /\ pc[i] = "done" =>
              /\ WellFormed(i)
              /\ issued[i].insert[1].content = response[i]
              /\ \A f \in ResponseFields :
                   httpResponse[i].body[f] =
                     CASE f = "response" -> response[i]
                       [] f = "confidence" -> confidence[i]
                       [] f = "suggestedQuestions" -> suggestedQuestions[i]
                       [] f = "relatedItems" -> relatedItems[i]

\* C30 witness: the update failed, the message was written and the FAQ
\* answer returned
C30_Witness ==
  \E i \in Invocations :
    /\ WellFormed(i)
    /\ UpdateResolved(i) /\ updateResult[i].error
    /\ messageData[i] # null
    /\ httpResponse[i].body.response = bestMatch[i].item.answer
    /\ \A k \in 1..Len(qa_items) : qa_items[k].view_count = Num(0)

=============================================================================
